---- MODULE Spec2Model ----
(***************************************************************************)
(* Model of two facilities of orion:                                       *)
(*   - orion.plotting.base: the PLOT_METHODS dispatch table and the        *)
(*     PlotAccessor bound to an experiment (specification Spec);           *)
(*   - orion.core.cli.db_main: registration of the `db` sub-commands       *)
(*     found in the package orion.core.cli.db (specification SpecCli).     *)
(***************************************************************************)
EXTENDS Integers, Sequences, FiniteSets, TLC

VARIABLES
    PLOT_METHODS,   \* the module-level dict, as an insertion-ordered list of items
    accessors,      \* the PlotAccessor objects alive: accessors[i] is its _experiment
    last,           \* the last accessor operation: its arguments, handler calls, outcome
    namespace,      \* the modules of the package orion.core.cli.db
    modules,        \* the list load_modules_in_path returned
    pc,             \* position of the add_subparser call
    idx,            \* position of the `for module in modules` loop
    parser,         \* entries of the root sub-command collection
    subparsers,     \* entries of the `db` sub-command collection (the registrar)
    hooked          \* the modules whose add_subparser was called, in call order

plotVars == <<PLOT_METHODS, accessors, last>>
cliVars == <<namespace, modules, pc, idx, parser, subparsers, hooked>>
vars == <<PLOT_METHODS, accessors, last,
          namespace, modules, pc, idx, parser, subparsers, hooked>>

----------------------------------------------------------------------------
(* Bounds *)

MaxAccessors == 2
MaxModules == 3

----------------------------------------------------------------------------
(* Python values *)

PyStr(s) == [type |-> "str", val |-> s]
PyNone == [type |-> "NoneType", val |-> "None"]
PyList == [type |-> "list", val |-> "[]"]
Experiment(n) == [type |-> "ExperimentClient", val |-> n]
Figure(n) == [type |-> "Figure", val |-> n]

\* bool(v): None, "" and [] are false
Truthy(v) ==
    /\ v.type # "NoneType"
    /\ ~(v.type = "list" /\ v.val = "[]")
    /\ ~(v.type = "str" /\ v.val = "")

\* hash(v) succeeds: a list has no hash
Hashable(v) == v.type # "list"

Subjects == {Experiment("exp1"), Experiment("exp2"), PyNone, PyStr(""), PyList}

OptionNames == {"order_by", "model"}
OptionValues == {PyStr("suggested")}
KindValues ==
    {PyStr("lpi"), PyStr("parallel_coordinates"), PyStr("partial_dependencies"),
     PyStr("regret"), PyStr("nonexistent"), PyNone, PyList}

EmptyDict == [n \in {} |-> PyNone]

\* the option dicts a caller can pass
Options == UNION {[D -> OptionValues] : D \in SUBSET OptionNames}

\* dict.pop(key, default): the value
Pop(kw, key, default) == IF key \in DOMAIN kw THEN kw[key] ELSE default

\* dict.pop(key, default): the dict left
Without(kw, key) == [n \in (DOMAIN kw) \ {key} |-> kw[n]]

\* f(key=value, **kw) when key is not in kw
With(kw, key, value) ==
    [n \in (DOMAIN kw) \cup {key} |-> IF n = key THEN value ELSE kw[n]]

\* every keyword dict a caller can pass: options, with or without a kind
CallerKwargs == Options \cup {With(o, "kind", k) : o \in Options, k \in KindValues}

----------------------------------------------------------------------------
(* Outcomes of a call *)

Returned(v) ==
    [tag |-> "return", exc |-> "", msg |-> "", kind |-> PyNone, names |-> <<>>,
     value |-> v]

Raised(e, m, k, ns) ==
    [tag |-> "raise", exc |-> e, msg |-> m, kind |-> k, names |-> ns,
     value |-> PyNone]

----------------------------------------------------------------------------
(* The handlers and the dispatch table *)

Handlers == {"lpi", "parallel_coordinates", "partial_dependencies", "regret"}

\* def h(experiment, ..., **kwargs): the handlers that take any keyword
HasVarKwargs(h) == h \in {"lpi", "parallel_coordinates", "regret"}

\* the keywords a handler names in its signature, among OptionNames
NamedParams(h) ==
    CASE h = "lpi" -> {"model"}
      [] h = "parallel_coordinates" -> {}
      [] h = "partial_dependencies" -> {"model"}
      [] h = "regret" -> {"order_by"}

Figures == {Figure("fig1"), Figure("fig2")}
BackendErrors == {"ValueError"}

\* what the plotting backend can do with a call: return a figure or fail
BackendOutcomes ==
    {Returned(f) : f \in Figures}
        \cup {Raised(e, "backend error", PyNone, <<>>) : e \in BackendErrors}

\* h(experiment, **options): binding the keywords, then the backend's call
HandlerOutcomes(h, options) ==
    IF \E n \in DOMAIN options : ~HasVarKwargs(h) /\ n \notin NamedParams(h)
    THEN {Raised("TypeError", "got an unexpected keyword argument", PyNone, <<>>)}
    ELSE BackendOutcomes

PlotMethodsAtLoad ==
    << [key |-> PyStr("lpi"), handler |-> "lpi"],
       [key |-> PyStr("parallel_coordinates"), handler |-> "parallel_coordinates"],
       [key |-> PyStr("partial_dependencies"), handler |-> "partial_dependencies"],
       [key |-> PyStr("regret"), handler |-> "regret"] >>

\* list(d.keys())
Keys(d) == [i \in 1..Len(d) |-> d[i].key]

\* k in d.keys(), for a hashable k
HasKey(d, k) == \E i \in 1..Len(d) : d[i].key = k

\* d[k]
GetItem(d, k) == d[CHOOSE i \in 1..Len(d) : d[i].key = k].handler

----------------------------------------------------------------------------
(* PlotAccessor *)

NoCall == <<>>

Invocation(h, s, opts, y) ==
    [handler |-> h, subject |-> s, options |-> opts, yielded |-> y]

Op(name, a, s, kw, inv, out) ==
    [op |-> name, acc |-> a, subject |-> s, kwargs |-> kw, invoked |-> inv,
     outcome |-> out]

\* variant: the default kind is the first key of the table
KindOfDefaultsToLpi(kw) == Pop(kw, "kind", PyStr("lpi"))

\* kwargs.pop("kind", "regret")
KindOf(kw) == Pop(kw, "kind", PyStr("regret"))

\* variant: no membership test, the lookup PLOT_METHODS[kind] raises KeyError
ValidateByLookup(kind, table) ==
    IF ~Hashable(kind)
    THEN {Raised("TypeError", "unhashable type", kind, <<>>)}
    ELSE IF ~HasKey(table, kind)
    THEN {Raised("KeyError", "", kind, <<>>)}
    ELSE {}

\* the test `kind not in PLOT_METHODS.keys()` and the error it raises:
\* the set of errors the validation ends in (empty when the kind passes)
Validate(kind, table) ==
    IF ~Hashable(kind)
    THEN {Raised("TypeError", "unhashable type", kind, <<>>)}
    ELSE IF ~HasKey(table, kind)
    THEN {Raised("ValueError", "Plot of kind is not one of", kind, Keys(table))}
    ELSE {}

\* variant: kind is read with kwargs.get and stays among the forwarded keywords
ForwardKeepsKind(table, kind, subject, rest) ==
    LET h == GetItem(table, kind)
        opts == With(rest, "kind", kind)
    IN  {[invoked |-> <<Invocation(h, subject, opts, y)>>, outcome |-> y] :
            y \in HandlerOutcomes(h, opts)}

\* variant: a failure of the handler is caught and raised again as a ValueError
ForwardWrapsErrors(table, kind, subject, rest) ==
    LET h == GetItem(table, kind)
    IN  {[invoked |-> <<Invocation(h, subject, rest, y)>>,
          outcome |-> IF y.tag = "raise"
                      THEN Raised("ValueError", "plot failed", kind, <<>>)
                      ELSE y] :
            y \in HandlerOutcomes(h, rest)}

\* return PLOT_METHODS[kind](self._experiment, **kwargs)
Forward(table, kind, subject, rest) ==
    LET h == GetItem(table, kind)
    IN  {[invoked |-> <<Invocation(h, subject, rest, y)>>, outcome |-> y] :
            y \in HandlerOutcomes(h, rest)}

\* PlotAccessor.__call__(self, **kwargs): every way the call can end
CallOutcomes(table, subject, kw) ==
    LET kind == KindOf(kw)
        rest == Without(kw, "kind")
        errors == Validate(kind, table)
    IN  IF errors # {}
        THEN {[invoked |-> NoCall, outcome |-> e] : e \in errors}
        ELSE Forward(table, kind, subject, rest)

\* variant: the constructor tests `experiment is None`
ConstructRejectsNoneOnly(experiment) ==
    IF experiment = PyNone
    THEN /\ last' = Op("__init__", 0, experiment, EmptyDict, NoCall,
                       Raised("ValueError", "Parameter 'experiment' is None",
                              PyNone, <<>>))
         /\ UNCHANGED accessors
    ELSE /\ Len(accessors) < MaxAccessors
         /\ accessors' = Append(accessors, experiment)
         /\ last' = Op("__init__", Len(accessors) + 1, experiment, EmptyDict,
                       NoCall, Returned(PyNone))

\* PlotAccessor.__init__(self, experiment)
Construct(experiment) ==
    IF ~Truthy(experiment)
    THEN /\ last' = Op("__init__", 0, experiment, EmptyDict, NoCall,
                       Raised("ValueError", "Parameter 'experiment' is None",
                              PyNone, <<>>))
         /\ UNCHANGED accessors
    ELSE /\ Len(accessors) < MaxAccessors
         /\ accessors' = Append(accessors, experiment)
         /\ last' = Op("__init__", Len(accessors) + 1, experiment, EmptyDict,
                       NoCall, Returned(PyNone))

New(experiment) ==
    /\ Construct(experiment)
    /\ UNCHANGED PLOT_METHODS
    /\ UNCHANGED cliVars

\* variant: the handler is taken with PLOT_METHODS.pop(kind)
CallPopsTable(a, kw) ==
    /\ \E r \in CallOutcomes(PLOT_METHODS, accessors[a], kw) :
           /\ last' = Op("__call__", a, accessors[a], kw, r.invoked, r.outcome)
           /\ PLOT_METHODS' =
                  IF r.invoked = NoCall THEN PLOT_METHODS
                  ELSE SelectSeq(PLOT_METHODS, LAMBDA e : e.key # KindOf(kw))
    /\ UNCHANGED accessors
    /\ UNCHANGED cliVars

\* accessor(**kwargs)
Call(a, kw) ==
    /\ \E r \in CallOutcomes(PLOT_METHODS, accessors[a], kw) :
           last' = Op("__call__", a, accessors[a], kw, r.invoked, r.outcome)
    /\ UNCHANGED <<PLOT_METHODS, accessors>>
    /\ UNCHANGED cliVars

ConvenienceMethods == {"lpi", "parallel_coordinates", "partial_dependencies", "regret"}

\* variant: regret() was copied from lpi() and still passes kind="lpi"
MethodKindCopied(m) ==
    CASE m = "lpi" -> PyStr("lpi")
      [] m = "parallel_coordinates" -> PyStr("parallel_coordinates")
      [] m = "partial_dependencies" -> PyStr("partial_dependencies")
      [] m = "regret" -> PyStr("lpi")

\* the kind each convenience method passes to self(kind=..., **kwargs)
MethodKind(m) ==
    CASE m = "lpi" -> PyStr("lpi")
      [] m = "parallel_coordinates" -> PyStr("parallel_coordinates")
      [] m = "partial_dependencies" -> PyStr("partial_dependencies")
      [] m = "regret" -> PyStr("regret")

\* accessor.m(**kwargs): return self(kind=<m>, **kwargs)
MethodOutcomes(table, subject, m, kw) ==
    IF "kind" \in DOMAIN kw
    THEN {[invoked |-> NoCall,
           outcome |-> Raised("TypeError", "got multiple values for keyword argument",
                              PyStr("kind"), <<>>)]}
    ELSE CallOutcomes(table, subject, With(kw, "kind", MethodKind(m)))

CallMethod(a, m, kw) ==
    /\ \E r \in MethodOutcomes(PLOT_METHODS, accessors[a], m, kw) :
           last' = Op(m, a, accessors[a], kw, r.invoked, r.outcome)
    /\ UNCHANGED <<PLOT_METHODS, accessors>>
    /\ UNCHANGED cliVars

----------------------------------------------------------------------------
(* Specification of the plotting accessor *)

CliIdle ==
    /\ namespace = <<>>
    /\ modules = <<>>
    /\ pc = "idle"
    /\ idx = 0
    /\ parser = {}
    /\ subparsers = <<>>
    /\ hooked = <<>>

Init ==
    /\ PLOT_METHODS = PlotMethodsAtLoad
    /\ accessors = <<>>
    /\ last = Op("none", 0, PyNone, EmptyDict, NoCall, Returned(PyNone))
    /\ CliIdle

Next ==
    \/ \E s \in Subjects : New(s)
    \/ \E a \in DOMAIN accessors, kw \in CallerKwargs : Call(a, kw)
    \/ \E a \in DOMAIN accessors, m \in ConvenienceMethods, kw \in CallerKwargs :
           CallMethod(a, m, kw)

Spec == Init /\ [][Next]_vars

----------------------------------------------------------------------------
(* orion.core.cli.db_main *)

ModuleIds == 1..MaxModules

\* names a module of orion.core.cli.db gives its sub-command
EntryKeys == {"setup", "upgrade"}

\* a module of the package: whether it defines add_subparser, the entries its
\* add_subparser adds to the collection it is given, and whether it raises
ModuleKinds ==
    {[has_hook |-> FALSE, entries |-> {}, fails |-> FALSE]}
        \cup [has_hook : {TRUE}, entries : SUBSET EntryKeys, fails : BOOLEAN]

NoEntries == [k \in EntryKeys |-> 0]

\* lambda m: hasattr(m, 'add_subparser')
HasAddSubparser(ns, m) == ns[m].has_hook

Injective(seq) == \A i, j \in 1..Len(seq) : seq[i] = seq[j] => i = j

\* module_import.load_modules_in_path(path, predicate): the lists it may return,
\* the modules of the package that satisfy the predicate, each once, in any order
LoadModulesInPath(ns) ==
    LET found == {m \in DOMAIN ns : HasAddSubparser(ns, m)}
    IN  {q \in UNION {[1..n -> found] : n \in {Cardinality(found)}} :
            Injective(q)}

\* subparsers.add_parser(name, ...) for each name a module registers
AddEntries(reg, ks, m) == [k \in DOMAIN reg |-> IF k \in ks THEN m ELSE reg[k]]

\* the entries a module's add_subparser leaves behind: all of them when it
\* returns, any part of them when it raises
HookAdds(ns, m) ==
    IF ns[m].fails THEN SUBSET ns[m].entries ELSE {ns[m].entries}

\* variant: add_subparser passes the root collection, load_modules_parser(parser)
HookArgRoot == "parser"

\* the collection load_modules_parser hands to each add_subparser
HookArg == "subparsers"

\* variant: the loop runs over modules[:-1]
LoopDoneSkipsLast(i, mods) == i > Len(mods) - 1

\* the for loop has no module left
LoopDone(i, mods) == i > Len(mods)

\* db_parser = parser.add_parser('db', ...); subparsers = db_parser.add_subparsers(...)
AddDbParser ==
    /\ pc = "start"
    /\ parser' = parser \cup {"db"}
    /\ subparsers' = NoEntries
    /\ pc' = "load_modules_parser"
    /\ UNCHANGED <<namespace, modules, idx, hooked>>
    /\ UNCHANGED plotVars

\* modules = module_import.load_modules_in_path('orion.core.cli.db', ...)
Discover ==
    /\ pc = "load_modules_parser"
    /\ modules' \in LoadModulesInPath(namespace)
    /\ idx' = 1
    /\ pc' = "loop"
    /\ UNCHANGED <<namespace, parser, subparsers, hooked>>
    /\ UNCHANGED plotVars

\* variant: an exception of a hook is caught and the loop goes on
HookStepSwallows ==
    /\ pc = "loop"
    /\ ~LoopDone(idx, modules)
    /\ LET m == modules[idx]
       IN  /\ hooked' = Append(hooked, [module |-> m, registrar |-> HookArg])
           /\ \E ks \in HookAdds(namespace, m) :
                  subparsers' = AddEntries(subparsers, ks, m)
           /\ pc' = "loop"
           /\ idx' = idx + 1
    /\ UNCHANGED <<namespace, modules, parser>>
    /\ UNCHANGED plotVars

\* one turn of the loop: get_parser = getattr(module, 'add_subparser');
\* get_parser(subparsers). An exception leaves the loop and both functions.
HookStep ==
    /\ pc = "loop"
    /\ ~LoopDone(idx, modules)
    /\ LET m == modules[idx]
       IN  /\ hooked' = Append(hooked, [module |-> m, registrar |-> HookArg])
           /\ \E ks \in HookAdds(namespace, m) :
                  IF HookArg = "subparsers"
                  THEN /\ subparsers' = AddEntries(subparsers, ks, m)
                       /\ UNCHANGED parser
                  ELSE /\ parser' = parser \cup ks
                       /\ UNCHANGED subparsers
           /\ IF namespace[m].fails
              THEN /\ pc' = "raised"
                   /\ UNCHANGED idx
              ELSE /\ pc' = "loop"
                   /\ idx' = idx + 1
    /\ UNCHANGED <<namespace, modules>>
    /\ UNCHANGED plotVars

\* the loop ends, load_modules_parser returns and add_subparser returns db_parser
Return ==
    /\ pc = "loop"
    /\ LoopDone(idx, modules)
    /\ pc' = "done"
    /\ UNCHANGED <<namespace, modules, idx, parser, subparsers, hooked>>
    /\ UNCHANGED plotVars

PlotIdle ==
    /\ PLOT_METHODS = PlotMethodsAtLoad
    /\ accessors = <<>>
    /\ last = Op("none", 0, PyNone, EmptyDict, NoCall, Returned(PyNone))

InitCli ==
    /\ PlotIdle
    /\ namespace \in [ModuleIds -> ModuleKinds]
    /\ modules = <<>>
    /\ pc = "start"
    /\ idx = 0
    /\ parser = {}
    /\ subparsers = NoEntries
    /\ hooked = <<>>

NextCli ==
    \/ AddDbParser
    \/ Discover
    \/ HookStep
    \/ Return

SpecCli == InitCli /\ [][NextCli]_vars

----------------------------------------------------------------------------
(* Properties of the plotting accessor (under Spec) *)

GenericCall == last.op = "__call__"
MethodCall == last.op \in {"lpi", "parallel_coordinates", "partial_dependencies", "regret"}
KindSupplied == "kind" \in DOMAIN last.kwargs
SuppliedKind == last.kwargs["kind"]
OptionsOf(kw) == [n \in (DOMAIN kw) \ {"kind"} |-> kw[n]]
IsKey(k) == \E i \in 1..Len(PLOT_METHODS) : PLOT_METHODS[i].key = k
AllKeys == {PLOT_METHODS[i].key : i \in 1..Len(PLOT_METHODS)}
RegisteredUnder(k, h) ==
    \E i \in 1..Len(PLOT_METHODS) :
        PLOT_METHODS[i].key = k /\ PLOT_METHODS[i].handler = h
ListsAllKeys(names) ==
    /\ Len(names) = Len(PLOT_METHODS)
    /\ {names[i] : i \in 1..Len(names)} = AllKeys

\* C1 as stated: a generic call whose supplied kind is not a key of PLOT_METHODS
\* (a string that is no key, None, or any other value) fails with a ValueError
\* whose message lists every key of PLOT_METHODS, and calls no handler.
C1_AnyUnknownKindIsValueError ==
    (GenericCall /\ KindSupplied /\ ~IsKey(SuppliedKind)) =>
        /\ last.outcome.tag = "raise"
        /\ last.outcome.exc = "ValueError"
        /\ ListsAllKeys(last.outcome.names)
        /\ last.invoked = <<>>

\* C1 amended: a generic call whose supplied kind is not a key of PLOT_METHODS
\* calls no handler and fails; when the kind is hashable (a string, None) the
\* error is a ValueError whose message names the kind and lists every key of
\* PLOT_METHODS, and when it is unhashable the error is the TypeError of the
\* membership test.
C1_UnknownKindRejected ==
    (GenericCall /\ KindSupplied /\ ~IsKey(SuppliedKind)) =>
        /\ last.outcome.tag = "raise"
        /\ last.invoked = <<>>
        /\ Hashable(SuppliedKind) =>
               /\ last.outcome.exc = "ValueError"
               /\ last.outcome.kind = SuppliedKind
               /\ ListsAllKeys(last.outcome.names)
        /\ ~Hashable(SuppliedKind) => last.outcome.exc = "TypeError"

C1_Witness ==
    /\ GenericCall
    /\ KindSupplied
    /\ SuppliedKind = PyNone
    /\ last.outcome.exc = "ValueError"
    /\ ListsAllKeys(last.outcome.names)

NoAccessorOnFalsySubject ==
    /\ \A a \in DOMAIN accessors : Truthy(accessors[a])
    /\ \A i \in 1..Len(last.invoked) : Truthy(last.invoked[i].subject)

FalsyConstruction == last.op = "__init__" /\ ~Truthy(last.subject)

\* C2 as stated: constructing an accessor on an empty or null subject fails with
\* ConfigurationError before any dispatch, so no accessor is bound to such a
\* subject and no handler is called with one.
C2_FailsWithConfigurationError ==
    /\ FalsyConstruction =>
           /\ last.outcome.tag = "raise"
           /\ last.outcome.exc = "ConfigurationError"
           /\ last.acc = 0
           /\ last.invoked = <<>>
    /\ NoAccessorOnFalsySubject

\* C2 amended: constructing an accessor on an empty or null subject fails with
\* ValueError ("Parameter 'experiment' is None") before any dispatch and creates
\* no accessor, so in every state no accessor is bound to such a subject and no
\* handler is called with one.
C2_FailsWithValueError ==
    /\ FalsyConstruction =>
           /\ last.outcome.tag = "raise"
           /\ last.outcome.exc = "ValueError"
           /\ last.outcome.msg = "Parameter 'experiment' is None"
           /\ last.acc = 0
           /\ last.invoked = <<>>
    /\ (last.op = "__init__" /\ Truthy(last.subject)) =>
           /\ last.outcome.tag = "return"
           /\ last.acc \in DOMAIN accessors
           /\ accessors[last.acc] = last.subject
    /\ NoAccessorOnFalsySubject

C2_Witness ==
    /\ FalsyConstruction
    /\ last.subject = PyList
    /\ last.outcome.tag = "raise"
    /\ Len(accessors) = 1

\* C3: a generic call without a kind calls the handler registered under "regret"
\* with the bound subject and the caller's options, and can end exactly as the
\* same call with kind="regret" can.
C3_DefaultIsRegret ==
    (GenericCall /\ ~KindSupplied) =>
        /\ Len(last.invoked) = 1
        /\ RegisteredUnder(PyStr("regret"), last.invoked[1].handler)
        /\ last.invoked[1].subject = accessors[last.acc]
        /\ last.invoked[1].options = last.kwargs
        /\ [invoked |-> last.invoked, outcome |-> last.outcome]
               \in CallOutcomes(PLOT_METHODS, accessors[last.acc],
                                With(last.kwargs, "kind", PyStr("regret")))

C3_Witness ==
    /\ GenericCall
    /\ ~KindSupplied
    /\ DOMAIN last.kwargs = {"order_by", "model"}
    /\ last.outcome.tag = "return"

\* C4: a generic call whose kind k is a key of PLOT_METHODS calls PLOT_METHODS[k]
\* once, with the accessor's subject and exactly the caller's keywords other than
\* kind, and ends as that handler ends (its return value is returned unchanged).
C4_ForwardsToHandler ==
    (GenericCall /\ KindSupplied /\ IsKey(SuppliedKind)) =>
        /\ Len(last.invoked) = 1
        /\ RegisteredUnder(SuppliedKind, last.invoked[1].handler)
        /\ last.invoked[1].subject = accessors[last.acc]
        /\ last.invoked[1].options = OptionsOf(last.kwargs)
        /\ "kind" \notin DOMAIN last.invoked[1].options
        /\ last.outcome = last.invoked[1].yielded

C4_Witness ==
    /\ GenericCall
    /\ KindSupplied
    /\ SuppliedKind = PyStr("lpi")
    /\ DOMAIN last.kwargs = {"kind", "model"}
    /\ last.acc = 2
    /\ last.outcome = Returned(Figure("fig2"))

\* C5: the convenience methods are the keys of PLOT_METHODS, and a convenience
\* method k called with options ends exactly as the generic call with kind=k and
\* the same options can: same handler, subject, options and outcome.
C5_MethodsMatchTable ==
    /\ {PyStr(m) : m \in ConvenienceMethods} = AllKeys
    /\ (MethodCall /\ ~KindSupplied) =>
           /\ [invoked |-> last.invoked, outcome |-> last.outcome]
                  \in CallOutcomes(PLOT_METHODS, accessors[last.acc],
                                   With(last.kwargs, "kind", PyStr(last.op)))
           /\ Len(last.invoked) = 1
           /\ RegisteredUnder(PyStr(last.op), last.invoked[1].handler)
           /\ last.invoked[1].subject = accessors[last.acc]
           /\ last.invoked[1].options = last.kwargs

C5_Witness ==
    /\ last.op = "regret"
    /\ DOMAIN last.kwargs = {"order_by"}
    /\ Len(last.invoked) = 1
    /\ last.outcome.tag = "return"

\* C9: when the handler an accessor call resolved fails, the call fails with the
\* handler's own error, unchanged; no call invokes more than one handler or
\* invokes a handler more than once.
C9_HandlerErrorPropagates ==
    /\ Len(last.invoked) <= 1
    /\ \A i \in 1..Len(last.invoked) :
           last.invoked[i].yielded.tag = "raise" =>
               last.outcome = last.invoked[i].yielded

C9_Witness ==
    /\ MethodCall
    /\ Len(last.invoked) = 1
    /\ last.invoked[1].yielded.tag = "raise"
    /\ last.invoked[1].yielded.msg = "backend error"
    /\ last.outcome.tag = "raise"

\* C10: PLOT_METHODS always has the keys and handlers it had at module load, and
\* no accessor operation removes an accessor or changes the subject it is bound to.
C10_TableAndSubjectsUnchanged ==
    /\ [](PLOT_METHODS = PlotMethodsAtLoad)
    /\ [][/\ PLOT_METHODS' = PLOT_METHODS
          /\ \A a \in DOMAIN accessors :
                 a \in DOMAIN accessors' /\ accessors'[a] = accessors[a]]_vars

C10_Witness ==
    /\ Len(accessors) = 2
    /\ accessors[1] # accessors[2]
    /\ GenericCall
    /\ last.acc = 1
    /\ last.outcome.tag = "return"

----------------------------------------------------------------------------
(* Properties of the db sub-command registration (under SpecCli) *)

Qualifying == {m \in DOMAIN namespace : namespace[m].has_hook}
HookedModules == {hooked[i].module : i \in 1..Len(hooked)}
EntriesOf(m) == namespace[m].entries
NoCollision ==
    \A m1, m2 \in Qualifying : m1 # m2 => EntriesOf(m1) \cap EntriesOf(m2) = {}

RECURSIVE RegistrarAfter(_)
RegistrarAfter(n) ==
    IF n = 0 THEN [k \in EntryKeys |-> 0]
    ELSE LET before == RegistrarAfter(n - 1)
         IN  [k \in EntryKeys |->
                 IF k \in EntriesOf(modules[n]) THEN modules[n] ELSE before[k]]

\* C7: a hook that raises is the last one called and ends add_subparser with the
\* exception: the hooks called are those of the modules up to the failing one, in
\* order, the 'db' parser stays, and every entry the earlier hooks added is still
\* in the registrar (only keys the failing hook wrote itself may differ).
C7_FailFastNoRollback ==
    /\ \A i \in 1..Len(hooked) :
           namespace[hooked[i].module].fails => (pc = "raised" /\ i = Len(hooked))
    /\ pc = "raised" =>
           LET n == Len(hooked)
           IN  /\ n >= 1
               /\ n <= Len(modules)
               /\ \A i \in 1..n : hooked[i].module = modules[i]
               /\ namespace[modules[n]].fails
               /\ "db" \in parser
               /\ \A k \in EntryKeys :
                      /\ RegistrarAfter(n - 1)[k] # 0 => subparsers[k] # 0
                      /\ k \notin EntriesOf(modules[n]) =>
                             subparsers[k] = RegistrarAfter(n - 1)[k]

C7_Witness ==
    /\ pc = "raised"
    /\ Len(hooked) = 2
    /\ Len(modules) = 3
    /\ \E k \in EntryKeys : subparsers[k] = hooked[1].module

\* the union of what each hook adds to an empty registrar
UnionOfIsolated ==
    [k \in EntryKeys |->
        IF \E m \in Qualifying : AddEntries(NoEntries, EntriesOf(m), m)[k] # 0
        THEN CHOOSE m \in Qualifying : AddEntries(NoEntries, EntriesOf(m), m)[k] # 0
        ELSE 0]

\* C8: whatever the order of the discovered modules, when the call returns and no
\* two hooks add the same key, the registrar holds exactly the union of the
\* entries each hook adds on its own.
C8_OrderIndependent ==
    (pc = "done" /\ NoCollision) => subparsers = UnionOfIsolated

C8_Witness ==
    /\ pc = "done"
    /\ NoCollision
    /\ Len(modules) >= 2
    /\ modules[1] > modules[2]
    /\ EntriesOf(modules[1]) # {}
    /\ EntriesOf(modules[2]) # {}

====
